---------------------------- MODULE Spec2Model ----------------------------
(***************************************************************************)
(* A model of tai.py, the AppImage manager front-end of IonTeLOS/tai.       *)
(*                                                                         *)
(*   Spec      the main window after construction: the UI thread's event   *)
(*             loop, the worker threads started by run_script_async,       *)
(*             load_apps_from_file and load_suggested_apps, the QProcess   *)
(*             each Worker drives, the modal windows and the user.         *)
(*   FairSpec  Spec with the fairness the Qt event loops and the operating *)
(*             system's scheduler give.                                    *)
(*   BootSpec  main() up to the construction of the main window: the       *)
(*             bootstrap of the appman backend.                            *)
(*   BrowseSpec  Spec with a user who changes tabs, selects in the list of *)
(*             available applications and searches it, and nothing else;   *)
(*             in Spec the user leaves the search box alone.               *)
(*   CallSpec  one call of a function of the program that computes a       *)
(*             result from its argument alone, for every argument of a     *)
(*             bounded set.                                                *)
(*                                                                         *)
(* Text is a sequence of characters; a character is a one-token string.    *)
(***************************************************************************)
EXTENDS Integers, Sequences, FiniteSets, TLC

(***************************************************************************)
(* Characters.  The alphabet of the model holds one or two characters of   *)
(* every class the code's regular expression and parsers tell apart.       *)
(***************************************************************************)
ESC == "ESC"          \* \x1B
MARKER == "DIAMOND"   \* the marker glyph U+25C6
NL == "\n"
SP == " "

\* Python's str.strip() with no argument strips whitespace.
Whitespace == {SP, NL, "\t", "\r"}

\* The three character classes of the CSI expression \x1B\[[0-?]*[ -/]*[@-~].
ParamChars == {"0", "1", "2", "3", "4", "5", "6", "7", "8", "9", ":", ";", "<", "=", ">", "?"}
InterChars == {SP, "!", "#", "$", "%", "&", "'", "(", ")", "*", "+", ",", "-", ".", "/"}
FinalChars == {"@", "A", "B", "K", "[", "]", "a", "b", "i", "m", "|", "~"}

RECURSIVE SkipWhile(_, _, _)
\* The first index >= i of s whose character is not in C (Len(s)+1 if none).
SkipWhile(s, i, C) ==
    IF i <= Len(s) /\ s[i] \in C THEN SkipWhile(s, i + 1, C) ELSE i

\* The index of the last character of the CSI sequence that starts at i, or 0.
\* The classes are disjoint, so the greedy match never has to backtrack.
CsiMatchEnd(s, i) ==
    IF i + 1 <= Len(s) /\ s[i] = ESC /\ s[i + 1] = "["
    THEN LET j == SkipWhile(s, i + 2, ParamChars)
             k == SkipWhile(s, j, InterChars)
         IN  IF k <= Len(s) /\ s[k] \in FinalChars THEN k ELSE 0
    ELSE 0

RECURSIVE StripFrom(_, _)
StripFrom(s, i) ==
    IF i > Len(s) THEN <<>>
    ELSE LET e == CsiMatchEnd(s, i)
         IN  IF e # 0 THEN StripFrom(s, e + 1)
             ELSE <<s[i]>> \o StripFrom(s, i + 1)

\* re.compile(...).sub('', text)
strip_ansi_escape_codes(text) == StripFrom(text, 1)

(***************************************************************************)
(* Python's string methods, as far as the handlers use them.               *)
(***************************************************************************)
RECURSIVE LastKept(_, _, _)
LastKept(s, i, C) == IF i >= 1 /\ s[i] \in C THEN LastKept(s, i - 1, C) ELSE i

\* s.lstrip(chars): every leading character that is in C is removed.
LStripChars(s, C) == SubSeq(s, SkipWhile(s, 1, C), Len(s))
RStripChars(s, C) == SubSeq(s, 1, LastKept(s, Len(s), C))
\* s.strip()
Strip(s) == RStripChars(LStripChars(s, Whitespace), Whitespace)

StartsAt(s, i, pat) ==
    /\ i + Len(pat) - 1 <= Len(s)
    /\ \A k \in 1..Len(pat) : s[i + k - 1] = pat[k]

\* s.find(pat) + 1: the index of the first occurrence of pat in s, or 0.
Find(s, pat) ==
    LET hits == {i \in 1..Len(s) : StartsAt(s, i, pat)}
    IN  IF hits = {} THEN 0 ELSE CHOOSE i \in hits : \A j \in hits : i <= j

\* pat in s
Contains(s, pat) == Find(s, pat) # 0

\* s.split(pat, 1)[0] and s.split(pat, 1)[1], for a pat that occurs in s;
\* s.split(pat)[0] is the same text as s.split(pat, 1)[0].
SplitHead(s, pat) == SubSeq(s, 1, Find(s, pat) - 1)
SplitTail(s, pat) == SubSeq(s, Find(s, pat) + Len(pat), Len(s))

RECURSIVE SplitAll(_, _)
\* s.split(pat): the pieces between the occurrences of pat, empty ones kept.
SplitAll(s, pat) ==
    IF Contains(s, pat)
    THEN <<SplitHead(s, pat)>> \o SplitAll(SplitTail(s, pat), pat)
    ELSE <<s>>

\* s.splitlines(): as split on the line break, without a last empty line.
SplitLines(s) ==
    LET parts == SplitAll(s, <<NL>>)
    IN  IF parts[Len(parts)] = <<>> THEN SubSeq(parts, 1, Len(parts) - 1) ELSE parts

RECURSIVE Join(_, _)
\* sep.join(parts)
Join(sep, parts) ==
    IF parts = <<>> THEN <<>>
    ELSE IF Len(parts) = 1 THEN parts[1]
    ELSE parts[1] \o sep \o Join(sep, Tail(parts))

COLON_SEP == <<SP, ":", SP>>
PIPE == <<"|">>

\* AppImageManagerGUI.extract_app_name
extract_app_name(app_line) ==
    IF Contains(app_line, PIPE)
    THEN Strip(LStripChars(Strip(SplitHead(app_line, PIPE)), {MARKER}))
    ELSE IF Contains(app_line, COLON_SEP)
    THEN Strip(LStripChars(Strip(SplitHead(app_line, COLON_SEP)), {MARKER}))
    ELSE Strip(LStripChars(Strip(app_line), {MARKER}))

\* AppImageManagerGUI.extract_app_description
extract_app_description(app_line) ==
    IF Contains(app_line, COLON_SEP)
    THEN Strip(SplitTail(app_line, COLON_SEP))
    ELSE IF Contains(app_line, PIPE)
    THEN Strip(SplitTail(app_line, PIPE))
    ELSE <<>>

\* FileLoaderWorker.extract_app_name and extract_app_description
FileLoaderWorker_extract_app_name(app_line) ==
    IF Contains(app_line, COLON_SEP)
    THEN Strip(Strip(LStripChars(Strip(SplitHead(app_line, COLON_SEP)), {MARKER})))
    ELSE Strip(Strip(LStripChars(Strip(app_line), {MARKER})))

FileLoaderWorker_extract_app_description(app_line) ==
    IF Contains(app_line, COLON_SEP)
    THEN Strip(SplitTail(app_line, COLON_SEP))
    ELSE <<>>

AppEntry(name, description, is_app) ==
    [name |-> name, description |-> description, is_app |-> is_app]

RECURSIVE ParseInstalledLines(_)
\* The loop of refresh_installed_apps.callback over the lines of the output.
ParseInstalledLines(lines) ==
    IF lines = <<>> THEN <<>>
    ELSE LET app_line == Head(lines)
             rest == ParseInstalledLines(Tail(lines))
             is_app_line == StartsAt(Strip(app_line), 1, <<MARKER>>)
         IN  IF Strip(app_line) = <<>> THEN rest
             ELSE IF ~is_app_line THEN rest
             ELSE <<AppEntry(extract_app_name(app_line),
                             Join(<<SP>>, SplitLines(extract_app_description(app_line))),
                             is_app_line)>> \o rest

\* refresh_installed_apps.callback: the list it hands to AppListModel.
InstalledAppsOf(output) ==
    IF output # <<>> THEN ParseInstalledLines(SplitAll(Strip(output), <<NL>>))
    ELSE <<>>

\* refresh_installed_apps_callback with the new entries added to the model shown
refresh_installed_apps_callback_appending(previous, output) ==
    previous \o InstalledAppsOf(output)

\* refresh_installed_apps.callback: the list shown after it, given the list
\* shown before it.  apps starts empty and a new AppListModel is set.
refresh_installed_apps_callback(previous, output) == InstalledAppsOf(output)

RECURSIVE ParseFileLines(_)
\* The loop of FileLoaderWorker.run over the lines of the file.
ParseFileLines(lines) ==
    IF lines = <<>> THEN <<>>
    ELSE LET line == Strip(Head(lines))
             rest == ParseFileLines(Tail(lines))
         IN  IF line = <<>> THEN rest
             ELSE <<AppEntry(FileLoaderWorker_extract_app_name(line),
                             FileLoaderWorker_extract_app_description(line),
                             TRUE)>> \o rest

(***************************************************************************)
(* Bounds of the model.                                                    *)
(***************************************************************************)
\* Worker, FileLoaderWorker and SuggestedAppsLoader threads started in a run,
\* the refresh that __init__ starts included.
MaxOps == 4

(***************************************************************************)
(* The environment: what the backend process may write and how it may end,  *)
(* what the available-apps file may hold, what the fetch may return.        *)
(***************************************************************************)
Chunk(ch, data) == [ch |-> ch, data |-> data]

\* What one appman process writes, as the chunks QProcess reads: a coloured
\* list of installed apps with an entry of empty name and a line that is no
\* entry; a line on stdout and then a byte on stderr.
Outputs ==
    << << Chunk("stdout", <<ESC, "[", "1", "m", MARKER, "a", SP, ":", SP, "b", NL,
                            MARKER, NL, "b", NL>>) >>,
       << Chunk("stdout", <<"b", NL>>),
          Chunk("stderr", <<"a">>) >> >>

ExitCodes == {0, 1}

\* The lines of ~/.local/share/AM/x86_64-apps, or "IOError" when open() raises.
FileContents ==
    { "IOError",
      << <<MARKER, "a", SP, ":", SP, "b", NL>>, <<NL>>, <<"b", NL>> >> }

VARIABLES
    ops,                    \* the thread/worker pairs created so far, by id
    mainQueue,              \* queued slot invocations posted to the UI thread
    modals,                 \* the open modal windows, the last shown on top
    uiEnabled,              \* what set_ui_enabled applied last
    progress_dialog,        \* self.progress_dialog: the id of the dialog it names
    threads,                \* self.threads
    workers,                \* self.workers
    installedApps,          \* the apps of self.app_list_view_model
    currentIndex,           \* self.app_list_view.currentIndex(), 0: invalid
    currentTab,             \* self.tabs.currentIndex()
    available_apps_loaded,  \* self.available_apps_loaded
    all_available_apps,     \* self.all_available_apps
    available_apps,         \* self.available_apps, the list displayed
    availableIndex,         \* self.available_list_view.currentIndex(), 0: invalid
    suggested_apps          \* the apps of self.suggested_apps_model

guiVars == <<ops, mainQueue, modals, uiEnabled, progress_dialog, threads, workers,
             installedApps, currentIndex, currentTab, available_apps_loaded,
             all_available_apps, available_apps, availableIndex, suggested_apps>>

\* The state of main() and of the bootstrap of the backend.
VARIABLES
    pc,                 \* where main() stands
    appman_exists,      \* os.path.exists("~/.local/bin/appman")
    existed_at_start,   \* appman_exists when main() began
    installed_packages, \* the packages dpkg -s knows as installed
    installer_file,     \* os.path.exists("./AM-INSTALLER")
    boot_log,           \* the steps of the bootstrap taken so far
    critical_dialogs,   \* the titles of the QMessageBox.critical boxes shown
    bootstrap_result,   \* what install_appman_if_missing returned: "none" yet,
                        \* "True", "False", or "raised" for an exception
    exit_code,          \* the exit code of the process, -1 while it runs
    window_created      \* AppImageManagerGUI() was constructed

bootVars == <<pc, appman_exists, existed_at_start, installed_packages, installer_file,
              boot_log, critical_dialogs, bootstrap_result, exit_code, window_created>>

\* The search box of the Available Applications tab.
VARIABLES
    search_text         \* self.search_box.text()

searchVars == <<search_text>>

\* One call of a function of the program on an input of its own.
VARIABLES
    call_fn,            \* the function called, "none" where none is
    call_input,         \* its argument
    call_result         \* <<>> before the call, then <<what it returned>>

callVars == <<call_fn, call_input, call_result>>

(***************************************************************************)
(* Records.                                                                *)
(***************************************************************************)
\* One thread with its worker.  kind: "Worker", "FileLoaderWorker" or
\* "SuggestedAppsLoader".  phase: "started" (thread.start() was called),
\* "running" (the process runs), "failed_to_start", "exited" (the worker
\* emitted its signals), "quitting" (thread.quit ran), "finished" (the thread
\* emitted finished), "handled" (on_thread_finished ran for it).
\* emitted, result, cause, followups and cb_done record what happened to the
\* invocation; the program does not read them.
NewOp(kind, args, cb, cause) ==
    [kind |-> kind, args |-> args, cb |-> cb, cause |-> cause,
     phase |-> "started", script |-> 0, pos |-> 0,
     output_data |-> <<>>, error_data |-> <<>>,
     emitted |-> <<>>, result |-> "none", followups |-> 0, cb_done |-> FALSE]

\* An invocation nothing refers to any more: its thread-finished handler ran
\* and its callback returned.  Its record is cleared at once, which keeps the
\* history of a run out of the state.
RetiredOp ==
    [kind |-> "retired", args |-> <<>>, cb |-> "none", cause |-> 0,
     phase |-> "handled", script |-> 0, pos |-> 0,
     output_data |-> <<>>, error_data |-> <<>>,
     emitted |-> <<>>, result |-> "none", followups |-> 0, cb_done |-> TRUE]

Retire(os) ==
    [i \in DOMAIN os |->
        IF os[i].phase = "handled" /\ os[i].cb_done THEN RetiredOp ELSE os[i]]

Progress(t) ==
    [w |-> "progress", id |-> t, title |-> "Please Wait", text |-> <<>>,
     cont |-> "none", arg |-> <<>>]

\* A blocking message box: QMessageBox.warning, information, critical,
\* question or exec_.  cont: what the handler does when the box returns.
Box(t, title, text, cont, arg) ==
    [w |-> "box", id |-> t, title |-> title, text |-> text, cont |-> cont, arg |-> arg]

Event(sig, t, arg) == [sig |-> sig, t |-> t, arg |-> arg]

Top(m) == m[Len(m)]
Pop(m) == SubSeq(m, 1, Len(m) - 1)

RECURSIVE Without(_, _)
\* m without the progress dialog d: QProgressDialog.close()
Without(m, d) ==
    IF m = <<>> THEN <<>>
    ELSE IF Head(m).w = "progress" /\ Head(m).id = d THEN Without(Tail(m), d)
    ELSE <<Head(m)>> \o Without(Tail(m), d)

OpenDialogs == {modals[k].id : k \in {j \in DOMAIN modals : modals[j].w = "progress"}}

\* The invocations of appman whose thread has not finished.
InFlight ==
    {t \in DOMAIN ops : ops[t].kind = "Worker"
                        /\ ops[t].phase \in {"started", "running", "failed_to_start",
                                             "exited", "quitting"}}

(***************************************************************************)
(* AppImageManagerGUI: launching a thread.                                 *)
(***************************************************************************)
\* AppImageManagerGUI.set_ui_enabled
set_ui_enabled(enabled) == uiEnabled' = enabled

\* The bookkeeping of a launch: the new pair is appended, the launch is
\* counted for the invocation whose callback made it.
Launched(kind, args, cb, cause) ==
    LET counted == IF cause = 0 THEN ops
                   ELSE [ops EXCEPT ![cause].followups = @ + 1, ![cause].cb_done = TRUE]
    IN  Append(Retire(counted), NewOp(kind, args, cb, cause))

\* AppImageManagerGUI.run_script_async(args, callback), called with the modal
\* windows m open; cause is the invocation whose callback calls it, or 0.
run_script_async(args, cb, cause, m) ==
    LET t == Len(ops) + 1
    IN  /\ set_ui_enabled(FALSE)
        /\ progress_dialog' = t
        /\ modals' = Append(m, Progress(t))
        /\ ops' = Launched("Worker", args, cb, cause)
        /\ threads' = threads \cup {t}
        /\ workers' = workers \cup {t}

\* AppImageManagerGUI.refresh_installed_apps
refresh_installed_apps(cause, m) == run_script_async(<<"-f">>, "refresh", cause, m)

\* AppImageManagerGUI.load_apps_from_file, with the dialog load_available_apps shows
load_available_apps ==
    LET t == Len(ops) + 1
    IN  /\ progress_dialog' = t
        /\ modals' = Append(modals, Progress(t))
        /\ ops' = Launched("FileLoaderWorker", <<>>, "on_apps_loaded", 0)
        /\ threads' = threads \cup {t}
        /\ workers' = workers \cup {t}

\* AppImageManagerGUI.load_suggested_apps
load_suggested_apps ==
    LET t == Len(ops) + 1
    IN  /\ progress_dialog' = t
        /\ modals' = Append(modals, Progress(t))
        /\ ops' = Launched("SuggestedAppsLoader", <<>>, "on_suggested_apps_loaded", 0)
        /\ threads' = threads \cup {t}
        /\ workers' = workers \cup {t}

(***************************************************************************)
(* Worker: the thread that runs one appman process.                        *)
(***************************************************************************)
\* Worker.run, line 220: setProcessChannelMode(QProcess.MergedChannels).
\* In this mode QProcess delivers what the process writes to stderr on the
\* standard output channel and never signals readyReadStandardError.
ProcessChannelMode == "MergedChannels"

\* The channel of QProcess on which a chunk written to ch arrives.
DeliveredOn(ch) == IF ProcessChannelMode = "MergedChannels" THEN "stdout" ELSE ch

\* Worker.run: the thread started and the process starts, or it fails to
\* start (appman is not on the PATH): QProcess then emits errorOccurred,
\* which nothing is connected to, and never finished.
WorkerRun(t) ==
    /\ ops[t].kind = "Worker" /\ ops[t].phase = "started"
    /\ \/ \E o \in DOMAIN Outputs :
            ops' = [ops EXCEPT ![t].phase = "running", ![t].script = o]
       \/ ops' = [ops EXCEPT ![t].phase = "failed_to_start"]
    /\ UNCHANGED <<mainQueue, modals, uiEnabled, progress_dialog, threads, workers,
                   installedApps, currentIndex, currentTab, available_apps_loaded,
                   all_available_apps, available_apps, availableIndex,
                   suggested_apps>>
    /\ UNCHANGED <<bootVars, callVars, searchVars>>

\* Worker.handle_stdout and Worker.handle_stderr, for the chunk that arrived
handle_ready_read(op, chunk) ==
    IF DeliveredOn(chunk.ch) = "stdout"
    THEN [op EXCEPT !.output_data = @ \o strip_ansi_escape_codes(chunk.data),
                    !.pos = @ + 1]
    ELSE [op EXCEPT !.error_data = @ \o strip_ansi_escape_codes(chunk.data),
                    !.pos = @ + 1]

\* The process writes its next chunk and QProcess signals readyRead.
ReadyRead(t) ==
    /\ ops[t].kind = "Worker" /\ ops[t].phase = "running"
    /\ ops[t].pos < Len(Outputs[ops[t].script])
    /\ ops' = [ops EXCEPT ![t] = handle_ready_read(@, Outputs[ops[t].script][ops[t].pos + 1])]
    /\ UNCHANGED <<mainQueue, modals, uiEnabled, progress_dialog, threads, workers,
                   installedApps, currentIndex, currentTab, available_apps_loaded,
                   all_available_apps, available_apps, availableIndex,
                   suggested_apps>>
    /\ UNCHANGED <<bootVars, callVars, searchVars>>

\* process_finished with finished.emit() indented into the error branch
process_finished_finished_in_branch(code, error_data, output_data) ==
    IF error_data # <<>>
    THEN <<[sig |-> "error_occurred", text |-> error_data],
           [sig |-> "finished", text |-> <<>>]>>
    ELSE <<[sig |-> "output_ready", text |-> output_data]>>

\* Worker.process_finished(exit_code, exit_status): the signals it emits, in
\* order, each with its text.  It does not read the exit code.
process_finished(code, error_data, output_data) ==
    (IF error_data # <<>>
     THEN <<[sig |-> "error_occurred", text |-> error_data]>>
     ELSE <<[sig |-> "output_ready", text |-> output_data]>>)
    \o <<[sig |-> "finished", text |-> <<>>]>>

\* The connections run_script_async made: output_ready -> callback and
\* error_occurred -> handle_error run on the UI thread; finished -> thread.quit
\* is queued to the UI thread too, where the QThread object lives.
RECURSIVE Posted(_, _)
Posted(t, signals) ==
    IF signals = <<>> THEN <<>>
    ELSE LET s == Head(signals)
         IN  <<Event(IF s.sig = "finished" THEN "quit" ELSE s.sig, t, s.text)>>
             \o Posted(t, Tail(signals))

\* The process exits with some code once its output was read: QProcess emits
\* finished(code, status) and Worker.process_finished runs.
ProcessExits(t) ==
    /\ ops[t].kind = "Worker" /\ ops[t].phase = "running"
    /\ ops[t].pos = Len(Outputs[ops[t].script])
    /\ \E code \in ExitCodes :
         LET signals == process_finished(code, ops[t].error_data, ops[t].output_data)
         IN  /\ ops' = [ops EXCEPT ![t].phase = "exited",
                                   ![t].emitted = @ \o signals]
             /\ mainQueue' = mainQueue \o Posted(t, signals)
    /\ UNCHANGED <<modals, uiEnabled, progress_dialog, threads, workers,
                   installedApps, currentIndex, currentTab, available_apps_loaded,
                   all_available_apps, available_apps, availableIndex,
                   suggested_apps>>
    /\ UNCHANGED <<bootVars, callVars, searchVars>>

(***************************************************************************)
(* FileLoaderWorker and SuggestedAppsLoader.                               *)
(***************************************************************************)
\* FileLoaderWorker.run: the list it emits for what open() gives.
FileLoaderWorker_run(content) ==
    IF content = "IOError" THEN <<>> ELSE ParseFileLines(content)

FileLoaderRun(t) ==
    /\ ops[t].kind = "FileLoaderWorker" /\ ops[t].phase = "started"
    /\ \E content \in FileContents :
         /\ ops' = [ops EXCEPT ![t].phase = "exited", ![t].emitted = @ \o <<[sig |-> "apps_loaded", text |-> <<>>]>>]
         /\ mainQueue' = mainQueue \o <<Event("apps_loaded", t, FileLoaderWorker_run(content)),
                                        Event("quit", t, <<>>)>>
    /\ UNCHANGED <<modals, uiEnabled, progress_dialog, threads, workers,
                   installedApps, currentIndex, currentTab, available_apps_loaded,
                   all_available_apps, available_apps, availableIndex,
                   suggested_apps>>
    /\ UNCHANGED <<bootVars, callVars, searchVars>>

\* The entry SuggestedAppsLoader.run falls back to.
DefaultSuggestedApps ==
    <<[app_name |-> <<"a", "b", "i">>, description |-> <<"A">>, icon_url |-> <<"i">>]>>

\* What requests.get and response.json() may give: an exception or a status
\* other than 200, a body that is not JSON (response.json() raises), a JSON
\* array (data.get raises AttributeError), a document with the
\* suggested_apps array, a document without that key.
FetchOutcomes ==
    { [kind |-> "exception", apps |-> <<>>],
      [kind |-> "not200", apps |-> <<>>],
      [kind |-> "not_json", apps |-> <<>>],
      [kind |-> "json_array", apps |-> <<>>],
      [kind |-> "json", apps |-> <<[app_name |-> <<"b">>, description |-> <<"B">>,
                                    icon_url |-> <<"i">>]>>],
      [kind |-> "json_no_key", apps |-> <<>>] }

\* SuggestedAppsLoader.run: the list it emits.
SuggestedAppsLoader_run(fetched) ==
    IF fetched.kind \in {"exception", "not200", "not_json", "json_array"}
    THEN DefaultSuggestedApps
    ELSE fetched.apps

\* SuggestedAppsLoader.run: its emissions of apps_loaded, the one after the
\* try statement.
SuggestedAppsLoader_emissions(fetched) == <<SuggestedAppsLoader_run(fetched)>>

SuggestedLoaderRun(t) ==
    /\ ops[t].kind = "SuggestedAppsLoader" /\ ops[t].phase = "started"
    /\ \E fetched \in FetchOutcomes :
         /\ ops' = [ops EXCEPT ![t].phase = "exited", ![t].emitted = @ \o <<[sig |-> "apps_loaded", text |-> <<>>]>>]
         /\ mainQueue' = mainQueue \o <<Event("suggested_loaded", t, SuggestedAppsLoader_run(fetched)),
                                        Event("quit", t, <<>>)>>
    /\ UNCHANGED <<modals, uiEnabled, progress_dialog, threads, workers,
                   installedApps, currentIndex, currentTab, available_apps_loaded,
                   all_available_apps, available_apps, availableIndex,
                   suggested_apps>>
    /\ UNCHANGED <<bootVars, callVars, searchVars>>

\* The thread's event loop returns after quit and the thread emits finished:
\* thread.finished -> on_thread_finished is queued to the UI thread.
ThreadExit(t) ==
    /\ ops[t].phase = "quitting"
    /\ ops' = [ops EXCEPT ![t].phase = "finished"]
    /\ mainQueue' = Append(mainQueue, Event("thread_finished", t, <<>>))
    /\ UNCHANGED <<modals, uiEnabled, progress_dialog, threads, workers,
                   installedApps, currentIndex, currentTab, available_apps_loaded,
                   all_available_apps, available_apps, availableIndex,
                   suggested_apps>>
    /\ UNCHANGED <<bootVars, callVars, searchVars>>

(***************************************************************************)
(* The UI thread: the slots the event loop runs.  A message box blocks its *)
(* handler in a nested event loop, which keeps delivering queued events;   *)
(* the handler goes on when the user closes the box.                       *)
(***************************************************************************)
SUCCESS_MESSAGE_START == <<"The following new programs have been installed:">>

\* InstallDisplay taking the piece after the first occurrence of the phrase
InstallDisplay_second_piece(output) ==
    IF Contains(output, SUCCESS_MESSAGE_START)
    THEN LET pieces == SplitAll(output, SUCCESS_MESSAGE_START)
         IN  SUCCESS_MESSAGE_START \o <<NL>> \o Strip(pieces[2])
    ELSE output

\* install_selected_appimage.callback and the same closure of
\* install_selected_appimage_from_suggested: the text it displays
InstallDisplay(output) ==
    IF Contains(output, SUCCESS_MESSAGE_START)
    THEN LET pieces == SplitAll(output, SUCCESS_MESSAGE_START)
         IN  SUCCESS_MESSAGE_START \o <<NL>> \o Strip(pieces[Len(pieces)])
    ELSE output

\* CallbackBox with update_all_apps.callback not calling refresh_installed_apps
CallbackBox_update_all_without_refresh(t, cb, output) ==
    CASE cb = "update" -> Box(t, "Update Success", output, "refresh", <<>>)
      [] cb = "remove" -> Box(t, "Removal Success", output, "refresh", <<>>)
      [] cb = "update_all" -> Box(t, "Update All Success", output, "none", <<>>)
      [] cb = "install" ->
             Box(t, "Installation Complete", InstallDisplay(output), "refresh", <<>>)
      [] cb = "about" -> Box(t, "About", strip_ansi_escape_codes(output), "none", <<>>)

\* The box a success callback opens and what the callback does after it.
CallbackBox(t, cb, output) ==
    CASE cb = "update" -> Box(t, "Update Success", output, "refresh", <<>>)
      [] cb = "remove" -> Box(t, "Removal Success", output, "refresh", <<>>)
      [] cb = "update_all" -> Box(t, "Update All Success", output, "refresh", <<>>)
      [] cb = "install" ->
             Box(t, "Installation Complete", InstallDisplay(output), "refresh", <<>>)
      [] cb = "about" -> Box(t, "About", strip_ansi_escape_codes(output), "none", <<>>)

\* worker.output_ready -> callback(output): the closure run_script_async got
success_callback(t, output) ==
    IF ops[t].cb = "refresh"
    THEN \* refresh_installed_apps.callback; setModel leaves no current index
         /\ installedApps' = refresh_installed_apps_callback(installedApps, output)
         /\ currentIndex' = 0
         /\ ops' = Retire([ops EXCEPT ![t].result = "success", ![t].cb_done = TRUE])
         /\ UNCHANGED <<modals, uiEnabled, progress_dialog, threads, workers,
                        currentTab, available_apps_loaded, all_available_apps,
                        available_apps, availableIndex, suggested_apps>>
    ELSE /\ modals' = Append(modals, CallbackBox(t, ops[t].cb, output))
         /\ ops' = [ops EXCEPT ![t].result = "success"]
         /\ UNCHANGED <<uiEnabled, progress_dialog, threads, workers, installedApps,
                        currentIndex, currentTab, available_apps_loaded,
                        all_available_apps, available_apps, availableIndex,
                        suggested_apps>>

\* AppImageManagerGUI.handle_error
handle_error(t, error_output) ==
    /\ modals' = Append(modals, Box(t, "Error", error_output, "none", <<>>))
    /\ ops' = [ops EXCEPT ![t].result = "failure"]
    /\ UNCHANGED <<uiEnabled, progress_dialog, threads, workers, installedApps,
                   currentIndex, currentTab, available_apps_loaded,
                   all_available_apps, available_apps, availableIndex,
                   suggested_apps>>

\* load_available_apps.on_apps_loaded, display_available_apps included
on_apps_loaded(t, apps) ==
    /\ modals' = Without(modals, progress_dialog)
    /\ available_apps_loaded' = TRUE
    /\ all_available_apps' = apps
    /\ available_apps' = apps
    /\ availableIndex' = 0
    /\ ops' = Retire([ops EXCEPT ![t].result = "success", ![t].cb_done = TRUE])
    /\ UNCHANGED <<uiEnabled, progress_dialog, threads, workers, installedApps,
                   currentIndex, currentTab, suggested_apps>>

\* load_suggested_apps.on_suggested_apps_loaded
on_suggested_apps_loaded(t, apps) ==
    /\ modals' = Without(modals, progress_dialog)
    /\ suggested_apps' = apps
    /\ ops' = Retire([ops EXCEPT ![t].result = "success", ![t].cb_done = TRUE])
    /\ UNCHANGED <<uiEnabled, progress_dialog, threads, workers, installedApps,
                   currentIndex, currentTab, available_apps_loaded,
                   all_available_apps, available_apps, availableIndex>>

\* QThread.quit, queued by the worker's finished or apps_loaded signal
thread_quit(t) ==
    /\ ops' = [ops EXCEPT ![t].phase = "quitting"]
    /\ UNCHANGED <<modals, uiEnabled, progress_dialog, threads, workers,
                   installedApps, currentIndex, currentTab, available_apps_loaded,
                   all_available_apps, available_apps, availableIndex,
                   suggested_apps>>

\* AppImageManagerGUI.on_thread_finished, for the sender thread t
on_thread_finished(t) ==
    /\ modals' = Without(modals, progress_dialog)
    /\ set_ui_enabled(TRUE)
    /\ threads' = threads \ {t}
    /\ ops' = Retire([ops EXCEPT ![t].phase = "handled"])
    /\ UNCHANGED <<progress_dialog, workers, installedApps, currentIndex, currentTab,
                   available_apps_loaded, all_available_apps, available_apps,
                   availableIndex, suggested_apps>>

\* The event loop of the UI thread, the top one or a message box's, delivers
\* the oldest queued slot invocation.
MainDispatch ==
    /\ mainQueue # <<>>
    /\ mainQueue' = Tail(mainQueue)
    /\ LET ev == Head(mainQueue)
       IN  CASE ev.sig = "output_ready" -> success_callback(ev.t, ev.arg)
             [] ev.sig = "error_occurred" -> handle_error(ev.t, ev.arg)
             [] ev.sig = "apps_loaded" -> on_apps_loaded(ev.t, ev.arg)
             [] ev.sig = "suggested_loaded" -> on_suggested_apps_loaded(ev.t, ev.arg)
             [] ev.sig = "quit" -> thread_quit(ev.t)
             [] ev.sig = "thread_finished" -> on_thread_finished(ev.t)
    /\ UNCHANGED <<bootVars, callVars, searchVars>>

\* The user closes the message box on top; the handler that opened it goes on:
\* an operation's success callback calls refresh_installed_apps.
CloseBox ==
    /\ modals # <<>> /\ Top(modals).w = "box"
    /\ LET box == Top(modals)
       IN  \/ /\ box.cont = "none"
              /\ modals' = Pop(modals)
              /\ ops' = IF box.id = 0 THEN ops
                       ELSE Retire([ops EXCEPT ![box.id].cb_done = TRUE])
              /\ UNCHANGED <<uiEnabled, progress_dialog, threads, workers>>
           \/ /\ box.cont = "refresh"
              /\ Len(ops) < MaxOps
              /\ refresh_installed_apps(box.id, Pop(modals))
    /\ UNCHANGED <<mainQueue, installedApps, currentIndex, currentTab,
                   available_apps_loaded, all_available_apps, available_apps,
                   availableIndex, suggested_apps>>
    /\ UNCHANGED <<bootVars, callVars, searchVars>>

\* The user answers remove_appimage's question; the rest of remove_appimage.
remove_appimage_reply(answer, app_name, m) ==
    IF answer = "Yes"
    THEN run_script_async(<<"-R", app_name>>, "remove", 0, m)
    ELSE /\ modals' = m
         /\ UNCHANGED <<ops, uiEnabled, progress_dialog, threads, workers>>

AnswerQuestion ==
    /\ modals # <<>> /\ Top(modals).w = "box" /\ Top(modals).cont = "question"
    /\ Len(ops) < MaxOps
    /\ \E answer \in {"Yes", "No"} :
         remove_appimage_reply(answer, Top(modals).arg, Pop(modals))
    /\ UNCHANGED <<mainQueue, installedApps, currentIndex, currentTab,
                   available_apps_loaded, all_available_apps, available_apps,
                   availableIndex, suggested_apps>>
    /\ UNCHANGED <<bootVars, callVars, searchVars>>

(***************************************************************************)
(* The user.  A widget takes input when no modal window is open, the tab   *)
(* widget is enabled and the widget's tab is the current one.              *)
(***************************************************************************)
Interactive(tab) == modals = <<>> /\ uiEnabled /\ currentTab = tab

\* QMessageBox.warning(...) followed by return
Warn(title) ==
    /\ modals' = Append(modals, Box(0, title, <<>>, "none", <<>>))
    /\ UNCHANGED <<ops, uiEnabled, progress_dialog, threads, workers>>

\* The checks update_appimage makes of the current index before it acts:
\* the title of the warning it shows, or "none".
update_selection_check(index, apps) ==
    IF index = 0 THEN "No Selection"
    ELSE IF ~apps[index].is_app THEN "Invalid Selection"
    ELSE IF apps[index].name = <<>> THEN "No Application Name"
    ELSE "none"

\* remove_selection_check without the test of the name
remove_selection_check_without_name(index, apps) ==
    IF index = 0 THEN "No Selection"
    ELSE IF ~apps[index].is_app THEN "Invalid Selection"
    ELSE "none"

\* The same checks, as remove_appimage makes them.
remove_selection_check(index, apps) ==
    IF index = 0 THEN "No Selection"
    ELSE IF ~apps[index].is_app THEN "Invalid Selection"
    ELSE IF apps[index].name = <<>> THEN "No Application Name"
    ELSE "none"

\* The user picks an entry of the installed list.
SelectInstalled ==
    /\ Interactive(0)
    /\ \E i \in DOMAIN installedApps : i # currentIndex /\ currentIndex' = i
    /\ UNCHANGED <<ops, mainQueue, modals, uiEnabled, progress_dialog, threads,
                   workers, installedApps, currentTab, available_apps_loaded,
                   all_available_apps, available_apps, availableIndex,
                   suggested_apps>>
    /\ UNCHANGED <<bootVars, callVars, searchVars>>

\* The user picks an entry of the available list.
SelectAvailable ==
    /\ Interactive(1)
    /\ \E i \in DOMAIN available_apps : i # availableIndex /\ availableIndex' = i
    /\ UNCHANGED <<ops, mainQueue, modals, uiEnabled, progress_dialog, threads,
                   workers, installedApps, currentIndex, currentTab,
                   available_apps_loaded, all_available_apps, available_apps,
                   suggested_apps>>
    /\ UNCHANGED <<bootVars, callVars, searchVars>>

\* AppImageManagerGUI.update_appimage
update_appimage ==
    /\ Interactive(0) /\ Len(ops) < MaxOps
    /\ LET problem == update_selection_check(currentIndex, installedApps)
       IN  IF problem # "none" THEN Warn(problem)
           ELSE run_script_async(<<"-u", installedApps[currentIndex].name>>,
                                 "update", 0, modals)
    /\ UNCHANGED <<mainQueue, installedApps, currentIndex, currentTab,
                   available_apps_loaded, all_available_apps, available_apps,
                   availableIndex, suggested_apps>>
    /\ UNCHANGED <<bootVars, callVars, searchVars>>

\* AppImageManagerGUI.remove_appimage, up to its question
remove_appimage ==
    /\ Interactive(0) /\ Len(ops) < MaxOps
    /\ LET problem == remove_selection_check(currentIndex, installedApps)
       IN  IF problem # "none" THEN Warn(problem)
           ELSE /\ modals' = Append(modals, Box(0, "Confirm Removal", <<>>, "question",
                                                installedApps[currentIndex].name))
                /\ UNCHANGED <<ops, uiEnabled, progress_dialog, threads, workers>>
    /\ UNCHANGED <<mainQueue, installedApps, currentIndex, currentTab,
                   available_apps_loaded, all_available_apps, available_apps,
                   availableIndex, suggested_apps>>
    /\ UNCHANGED <<bootVars, callVars, searchVars>>

\* AppImageManagerGUI.update_all_apps
update_all_apps ==
    /\ Interactive(0) /\ Len(ops) < MaxOps
    /\ run_script_async(<<"-u">>, "update_all", 0, modals)
    /\ UNCHANGED <<mainQueue, installedApps, currentIndex, currentTab,
                   available_apps_loaded, all_available_apps, available_apps,
                   availableIndex, suggested_apps>>
    /\ UNCHANGED <<bootVars, callVars, searchVars>>

\* The refresh button: AppImageManagerGUI.refresh_installed_apps
RefreshClicked ==
    /\ Interactive(0) /\ Len(ops) < MaxOps
    /\ refresh_installed_apps(0, modals)
    /\ UNCHANGED <<mainQueue, installedApps, currentIndex, currentTab,
                   available_apps_loaded, all_available_apps, available_apps,
                   availableIndex, suggested_apps>>
    /\ UNCHANGED <<bootVars, callVars, searchVars>>

\* AppImageManagerGUI.install_selected_appimage; with an entry of empty name
\* it returns without a word, which changes nothing.
install_selected_appimage ==
    /\ Interactive(1) /\ Len(ops) < MaxOps
    /\ IF availableIndex = 0 THEN Warn("No Selection")
       ELSE /\ available_apps[availableIndex].name # <<>>
            /\ run_script_async(<<"-i", available_apps[availableIndex].name>>,
                                "install", 0, modals)
    /\ UNCHANGED <<mainQueue, installedApps, currentIndex, currentTab,
                   available_apps_loaded, all_available_apps, available_apps,
                   availableIndex, suggested_apps>>
    /\ UNCHANGED <<bootVars, callVars, searchVars>>

\* AppImageManagerGUI.install_selected_appimage_from_suggested(index), which a
\* click on an entry of the suggested list calls
install_selected_appimage_from_suggested ==
    /\ Interactive(2) /\ Len(ops) < MaxOps
    /\ \E i \in DOMAIN suggested_apps :
         /\ suggested_apps[i].app_name # <<>>
         /\ run_script_async(<<"-i", suggested_apps[i].app_name>>,
                             "install", 0, modals)
    /\ UNCHANGED <<mainQueue, installedApps, currentIndex, currentTab,
                   available_apps_loaded, all_available_apps, available_apps,
                   availableIndex, suggested_apps>>
    /\ UNCHANGED <<bootVars, callVars, searchVars>>

\* The names the context menus offer "About" for: show_installed_context_menu,
\* show_available_context_menu and show_suggested_context_menu.
AboutNames ==
    CASE currentTab = 0 ->
             {installedApps[i].name : i \in {j \in DOMAIN installedApps :
                  installedApps[j].is_app /\ installedApps[j].name # <<>>}}
      [] currentTab = 1 ->
             {available_apps[i].name : i \in {j \in DOMAIN available_apps :
                  available_apps[j].name # <<>>}}
      [] currentTab = 2 ->
             {suggested_apps[i].app_name : i \in {j \in DOMAIN suggested_apps :
                  suggested_apps[j].app_name # <<>>}}
      [] OTHER -> {}

\* AppImageManagerGUI.show_app_info(app_name)
show_app_info ==
    /\ modals = <<>> /\ uiEnabled /\ Len(ops) < MaxOps
    /\ \E app_name \in AboutNames :
         run_script_async(<<"about", app_name>>, "about", 0, modals)
    /\ UNCHANGED <<mainQueue, installedApps, currentIndex, currentTab,
                   available_apps_loaded, all_available_apps, available_apps,
                   availableIndex, suggested_apps>>
    /\ UNCHANGED <<bootVars, callVars, searchVars>>

\* AppImageManagerGUI.display_available_apps(apps)
display_available_apps(apps) ==
    /\ available_apps' = apps
    /\ availableIndex' = 0

\* AppImageManagerGUI.on_tab_changed(index): the user picked another tab
on_tab_changed ==
    /\ modals = <<>> /\ uiEnabled /\ Len(ops) < MaxOps
    /\ \E index \in 0..3 :
         /\ index # currentTab
         /\ currentTab' = index
         /\ IF index = 1
            THEN IF ~available_apps_loaded
                 THEN /\ load_available_apps
                      /\ UNCHANGED <<available_apps, availableIndex>>
                 ELSE /\ display_available_apps(all_available_apps)
                      /\ UNCHANGED <<ops, modals, progress_dialog, threads, workers>>
            ELSE IF index = 2
            THEN /\ load_suggested_apps
                 /\ UNCHANGED <<available_apps, availableIndex>>
            ELSE UNCHANGED <<ops, modals, progress_dialog, threads, workers,
                             available_apps, availableIndex>>
    /\ UNCHANGED <<mainQueue, uiEnabled, installedApps, currentIndex,
                   available_apps_loaded, all_available_apps, suggested_apps>>
    /\ UNCHANGED <<bootVars, callVars, searchVars>>

(***************************************************************************)
(* Search in the Available Applications tab.                               *)
(***************************************************************************)
\* str.lower(), on the letters of the model
Lower(s) ==
    [i \in DOMAIN s |-> CASE s[i] = "A" -> "a" [] s[i] = "B" -> "b" [] OTHER -> s[i]]

\* What the user may have in the search box.
SearchTexts == {<<>>, <<SP>>, <<"A">>, <<"a", SP>>, <<"a", "b">>}

\* The filter of perform_search
filtered_apps(text, apps) ==
    LET Matches(app) == \/ Contains(Lower(app.name), Lower(text))
                        \/ Contains(Lower(app.description), Lower(text))
    IN  SelectSeq(apps, Matches)

\* perform_search keeping the filtered list as the list of all
perform_search_in_place(text) ==
    LET stripped == Strip(text)
    IN  IF stripped = <<>>
        THEN /\ Warn("Input Required")
             /\ UNCHANGED <<all_available_apps, available_apps, availableIndex>>
        ELSE /\ display_available_apps(filtered_apps(stripped, all_available_apps))
             /\ all_available_apps' = filtered_apps(stripped, all_available_apps)
             /\ UNCHANGED <<ops, modals, uiEnabled, progress_dialog, threads, workers>>

\* AppImageManagerGUI.perform_search, text being self.search_box.text()
perform_search(text) ==
    LET stripped == Strip(text)
    IN  IF stripped = <<>>
        THEN /\ Warn("Input Required")
             /\ UNCHANGED <<all_available_apps, available_apps, availableIndex>>
        ELSE /\ display_available_apps(filtered_apps(stripped, all_available_apps))
             /\ UNCHANGED <<all_available_apps, ops, modals, uiEnabled,
                            progress_dialog, threads, workers>>

\* AppImageManagerGUI.on_search_text_changed(text): the user edited the box
on_search_text_changed ==
    /\ Interactive(1)
    /\ \E text \in SearchTexts :
         /\ text # search_text
         /\ search_text' = text
         /\ IF Len(text) >= 2
            THEN perform_search(text)
            ELSE UNCHANGED <<all_available_apps, available_apps, availableIndex,
                             ops, modals, uiEnabled, progress_dialog, threads, workers>>
    /\ UNCHANGED <<mainQueue, installedApps, currentIndex, currentTab,
                   available_apps_loaded, suggested_apps>>
    /\ UNCHANGED <<bootVars, callVars>>

\* search_button.clicked: perform_search
search_button_clicked ==
    /\ Interactive(1)
    /\ perform_search(search_text)
    /\ UNCHANGED <<mainQueue, installedApps, currentIndex, currentTab,
                   available_apps_loaded, suggested_apps, search_text>>
    /\ UNCHANGED <<bootVars, callVars>>

(***************************************************************************)
(* The main window.                                                        *)
(***************************************************************************)
\* AppImageManagerGUI.__init__ and init_ui, which ends with
\* refresh_installed_apps(): the first invocation is under way.
GuiInit ==
    /\ ops = <<NewOp("Worker", <<"-f">>, "refresh", 0)>>
    /\ mainQueue = <<>>
    /\ modals = <<Progress(1)>>
    /\ uiEnabled = FALSE
    /\ progress_dialog = 1
    /\ threads = {1}
    /\ workers = {1}
    /\ installedApps = <<>>
    /\ currentIndex = 0
    /\ currentTab = 0
    /\ available_apps_loaded = FALSE
    /\ all_available_apps = <<>>
    /\ available_apps = <<>>
    /\ availableIndex = 0
    /\ suggested_apps = <<>>
    /\ search_text = <<>>

GuiNext ==
    \/ \E t \in DOMAIN ops : WorkerRun(t)
    \/ \E t \in DOMAIN ops : ReadyRead(t)
    \/ \E t \in DOMAIN ops : ProcessExits(t)
    \/ \E t \in DOMAIN ops : FileLoaderRun(t)
    \/ \E t \in DOMAIN ops : SuggestedLoaderRun(t)
    \/ \E t \in DOMAIN ops : ThreadExit(t)
    \/ MainDispatch
    \/ CloseBox
    \/ AnswerQuestion
    \/ SelectInstalled
    \/ SelectAvailable
    \/ update_appimage
    \/ remove_appimage
    \/ update_all_apps
    \/ RefreshClicked
    \/ install_selected_appimage
    \/ install_selected_appimage_from_suggested
    \/ show_app_info
    \/ on_tab_changed

(***************************************************************************)
(* main() and the bootstrap of the backend, install_appman_if_missing.     *)
(***************************************************************************)
\* install_dependencies: the list it checks
dependencies ==
    {"coreutils", "curl", "grep", "less", "sed", "wget",
     "sudo", "binutils", "unzip", "tar", "torsocks", "zsync"}

\* install_appman_if_missing returns
Return(value) ==
    /\ bootstrap_result' = value
    /\ pc' = "returned"

\* install_appman_if_missing without the return of its first check
install_appman_if_missing_without_return ==
    /\ pc = "start"
    /\ pc' = "install_dependencies"
    /\ UNCHANGED <<appman_exists, existed_at_start, installed_packages, installer_file,
                   boot_log, critical_dialogs, bootstrap_result, exit_code,
                   window_created>>
    /\ UNCHANGED <<guiVars, callVars, searchVars>>

\* install_appman_if_missing, its first check
install_appman_if_missing ==
    /\ pc = "start"
    /\ IF appman_exists
       THEN Return("True")
       ELSE /\ pc' = "install_dependencies"
            /\ UNCHANGED bootstrap_result
    /\ UNCHANGED <<appman_exists, existed_at_start, installed_packages, installer_file,
                   boot_log, critical_dialogs, exit_code, window_created>>
    /\ UNCHANGED <<guiVars, callVars, searchVars>>

\* How subprocess.run(["pkexec", "apt", "install", ...], check=True) may end:
\* it returns, it raises CalledProcessError for a non-zero status, or it
\* raises OSError because pkexec cannot be executed.
PkexecOutcomes == {"ok", "CalledProcessError", "OSError"}

\* install_dependencies, as called by install_appman_if_missing
install_dependencies ==
    /\ pc = "install_dependencies"
    /\ LET missing_deps == dependencies \ installed_packages
       IN  IF missing_deps # {}
           THEN \E outcome \in PkexecOutcomes :
                  /\ boot_log' = boot_log \o <<"install_dependencies", "pkexec">>
                  /\ CASE outcome = "ok" ->
                            /\ installed_packages' = installed_packages \cup missing_deps
                            /\ pc' = "download_and_run_am_installer"
                            /\ UNCHANGED <<critical_dialogs, bootstrap_result>>
                       [] outcome = "CalledProcessError" ->
                            /\ critical_dialogs' = Append(critical_dialogs, "Installation Failed")
                            /\ Return("False")
                            /\ UNCHANGED installed_packages
                       [] outcome = "OSError" ->
                            \* no except clause matches: the exception leaves
                            \* install_appman_if_missing and main
                            /\ Return("raised")
                            /\ UNCHANGED <<installed_packages, critical_dialogs>>
           ELSE /\ boot_log' = Append(boot_log, "install_dependencies")
                /\ pc' = "download_and_run_am_installer"
                /\ UNCHANGED <<installed_packages, critical_dialogs, bootstrap_result>>
    /\ UNCHANGED <<appman_exists, existed_at_start, installer_file, exit_code,
                   window_created>>
    /\ UNCHANGED <<guiVars, callVars, searchVars>>

\* How the body of download_and_run_am_installer may go: wget fails (with or
\* without leaving a file), chmod fails, Popen raises, the installer returns
\* non-zero (print(process.stderr.read()) then raises ValueError, the pipe
\* being closed by communicate), or the installer returns 0.
InstallerOutcomes ==
    {"wget_failed_no_file", "wget_failed_file", "chmod_failed", "popen_raised",
     "returned_nonzero", "returned_zero"}

\* The steps taken for an outcome
InstallerSteps(outcome) ==
    CASE outcome \in {"wget_failed_no_file", "wget_failed_file"} -> <<"wget">>
      [] outcome = "chmod_failed" -> <<"wget", "chmod">>
      [] OTHER -> <<"wget", "chmod", "AM-INSTALLER">>

\* Whether ./AM-INSTALLER exists when the try block is left: wget that could
\* not run leaves what was there, wget -O that ran leaves a file, and the
\* installer, once it ran, may have removed its own script (kept = FALSE).
FileAfterTry(outcome, before, kept) ==
    CASE outcome = "wget_failed_no_file" -> before
      [] outcome \in {"wget_failed_file", "chmod_failed", "popen_raised"} -> TRUE
      [] OTHER -> kept

\* installer_cleanup with the removal after the try block, where the early
\* returns do not reach it
installer_cleanup_after_try(outcome, exists) ==
    IF outcome = "returned_zero" /\ exists
    THEN [file |-> FALSE, log |-> <<"os.remove">>]
    ELSE [file |-> exists, log |-> <<>>]

\* The finally clause of download_and_run_am_installer, run on every outcome:
\* the file afterwards and the step logged.
installer_cleanup(outcome, exists) ==
    IF exists
    THEN [file |-> FALSE, log |-> <<"os.remove">>]
    ELSE [file |-> exists, log |-> <<>>]

\* download_and_run_am_installer; the installer, when it ran, may or may not
\* have put appman in place.
download_and_run_am_installer ==
    /\ pc = "download_and_run_am_installer"
    /\ \E outcome \in InstallerOutcomes, installed \in BOOLEAN, kept \in BOOLEAN :
         LET finally == installer_cleanup(outcome,
                            FileAfterTry(outcome, installer_file, kept))
         IN  /\ boot_log' = boot_log \o <<"download_and_run_am_installer">>
                                     \o InstallerSteps(outcome) \o <<outcome>>
                                     \o finally.log
             /\ appman_exists' = (appman_exists \/
                    (installed /\ outcome \in {"returned_nonzero", "returned_zero"}))
             /\ installer_file' = finally.file
             /\ IF outcome = "returned_zero"
                THEN /\ pc' = "verify"
                     /\ UNCHANGED <<critical_dialogs, bootstrap_result>>
                ELSE /\ critical_dialogs' = Append(critical_dialogs, "Installation Error")
                     /\ Return("False")
    /\ UNCHANGED <<existed_at_start, installed_packages, exit_code, window_created>>
    /\ UNCHANGED <<guiVars, callVars, searchVars>>

\* verify_installation without the test of os.path.exists
verify_installation_without_check ==
    /\ pc = "verify"
    /\ boot_log' = Append(boot_log, "verify")
    /\ pc' = "configure_appman_directory"
    /\ UNCHANGED <<critical_dialogs, bootstrap_result>>
    /\ UNCHANGED <<appman_exists, existed_at_start, installed_packages, installer_file,
                   exit_code, window_created>>
    /\ UNCHANGED <<guiVars, callVars, searchVars>>

\* install_appman_if_missing: "Verify installation"
verify_installation ==
    /\ pc = "verify"
    /\ boot_log' = Append(boot_log, "verify")
    /\ IF ~appman_exists
       THEN /\ critical_dialogs' = Append(critical_dialogs, "Installation Error")
            /\ Return("False")
       ELSE /\ pc' = "configure_appman_directory"
            /\ UNCHANGED <<critical_dialogs, bootstrap_result>>
    /\ UNCHANGED <<appman_exists, existed_at_start, installed_packages, installer_file,
                   exit_code, window_created>>
    /\ UNCHANGED <<guiVars, callVars, searchVars>>

\* How configure_appman_directory may go: Popen raises, appman returns
\* non-zero (the print of process.stderr.read() raises again), or 0.
ConfigureOutcomes == {"popen_raised", "returned_nonzero", "returned_zero"}

\* configure_appman_directory and the return of install_appman_if_missing
configure_appman_directory ==
    /\ pc = "configure_appman_directory"
    /\ \E outcome \in ConfigureOutcomes :
         /\ boot_log' = boot_log \o <<"configure_appman_directory", outcome>>
         /\ IF outcome = "returned_zero"
            THEN /\ Return("True")
                 /\ UNCHANGED critical_dialogs
            ELSE /\ critical_dialogs' = Append(critical_dialogs, "Configuration Error")
                 /\ Return("False")
    /\ UNCHANGED <<appman_exists, existed_at_start, installed_packages, installer_file,
                   exit_code, window_created>>
    /\ UNCHANGED <<guiVars, callVars, searchVars>>

\* main(), after install_appman_if_missing: sys.exit(1), or the exception
\* ends the interpreter with a traceback and status 1, or the main window is
\* constructed and shown.
main_after_bootstrap ==
    /\ pc = "returned"
    /\ IF bootstrap_result = "True"
       THEN /\ window_created' = TRUE
            /\ pc' = "exec"
            /\ UNCHANGED exit_code
       ELSE /\ exit_code' = 1
            /\ pc' = "exited"
            /\ UNCHANGED window_created
    /\ UNCHANGED <<appman_exists, existed_at_start, installed_packages, installer_file,
                   boot_log, critical_dialogs, bootstrap_result>>
    /\ UNCHANGED <<guiVars, callVars, searchVars>>

\* main() begins: QApplication(sys.argv) exists, nothing else happened.
BootInit ==
    /\ pc = "start"
    /\ appman_exists \in BOOLEAN
    /\ existed_at_start = appman_exists
    /\ installed_packages \in SUBSET dependencies
    /\ installer_file \in BOOLEAN
    /\ boot_log = <<>>
    /\ critical_dialogs = <<>>
    /\ bootstrap_result = "none"
    /\ exit_code = -1
    /\ window_created = FALSE

\* The bootstrap found appman in place and the main window was constructed.
BootDone ==
    /\ pc = "exec"
    /\ appman_exists = TRUE
    /\ existed_at_start = TRUE
    /\ installed_packages = dependencies
    /\ installer_file = FALSE
    /\ boot_log = <<>>
    /\ critical_dialogs = <<>>
    /\ bootstrap_result = "True"
    /\ exit_code = -1
    /\ window_created = TRUE

\* No main window yet.
GuiAbsent ==
    /\ ops = <<>>
    /\ mainQueue = <<>>
    /\ modals = <<>>
    /\ uiEnabled = TRUE
    /\ progress_dialog = 0
    /\ threads = {}
    /\ workers = {}
    /\ installedApps = <<>>
    /\ currentIndex = 0
    /\ currentTab = 0
    /\ available_apps_loaded = FALSE
    /\ all_available_apps = <<>>
    /\ available_apps = <<>>
    /\ availableIndex = 0
    /\ suggested_apps = <<>>
    /\ search_text = <<>>

BootNext ==
    \/ install_appman_if_missing
    \/ install_dependencies
    \/ download_and_run_am_installer
    \/ verify_installation
    \/ configure_appman_directory
    \/ main_after_bootstrap

(***************************************************************************)
(* Calls of the functions of the program on inputs of their own.           *)
(***************************************************************************)
\* The sequences over A of length n at most.
SeqsUpTo(A, n) == UNION {[1..k -> A] : k \in 0..n}

MaxPartLen == 3

\* The characters the line parsers tell apart, and a letter.
LineAlphabet == {MARKER, "a", SP, ":", "|"}

\* What may follow the first " : " of a line: nothing, a description, one
\* with white space around it, with a bar in it, with " : " in it.
RightParts ==
    {<<>>, <<"a">>, <<SP, "a", SP>>, <<"a", "|", "a">>, <<"a", SP, ":", SP, "a">>}

\* Lines that contain " : ": any text, the separator, a right part.
Lines ==
    {l \o COLON_SEP \o r : l \in SeqsUpTo(LineAlphabet, MaxPartLen), r \in RightParts}

MaxLines == 3

\* The lines the callback of refresh_installed_apps tells apart: with the
\* marker glyph first, after white space, later in the line, or not at all.
OutputLines ==
    {<<MARKER, "a">>, <<MARKER>>, <<SP, MARKER, "a">>, <<"a", MARKER>>, <<"a">>,
     <<SP>>, <<>>}

\* The outputs of MaxLines lines at most, and the lists shown before.
RefreshInputs ==
    {[previous |-> prev, output |-> Join(<<NL>>, ls)] :
        prev \in {<<>>, <<AppEntry(<<"b">>, <<>>, TRUE)>>},
        ls \in SeqsUpTo(OutputLines, MaxLines)}

MaxOutputLen == 4

\* The outputs of an installation: the phrase, as one character of the model,
\* among other text.
InstallOutputs == SeqsUpTo({SUCCESS_MESSAGE_START[1], "a", SP, NL}, MaxOutputLen)

MaxReadLen == 4

\* The characters the CSI expression tells apart: the escape, the bracket, a
\* final character, and a letter that is a final character too.
ReadAlphabet == {ESC, "[", "m", "a"}

RECURSIVE ChunksOf(_, _, _)
\* The chunks readAllStandardOutput returns for a process that writes text,
\* when the reads fall after the positions in cuts: from position from on.
ChunksOf(text, cuts, from) ==
    IF from > Len(text) THEN <<>>
    ELSE LET later == {c \in cuts : c >= from /\ c < Len(text)}
             to == IF later = {} THEN Len(text)
                   ELSE CHOOSE c \in later : \A d \in later : c <= d
         IN  <<Chunk("stdout", SubSeq(text, from, to))>> \o ChunksOf(text, cuts, to + 1)

\* The ways the output of a process, of MaxReadLen characters at most, is
\* split into read chunks.
ReadSplits ==
    {ChunksOf(text, cuts, 1) :
        text \in SeqsUpTo(ReadAlphabet, MaxReadLen), cuts \in SUBSET (1..(MaxReadLen - 1))}

RECURSIVE ReadAll(_, _)
\* handle_stdout / handle_stderr for each chunk in turn
ReadAll(op, chunks) ==
    IF chunks = <<>> THEN op
    ELSE ReadAll(handle_ready_read(op, Head(chunks)), Tail(chunks))

\* The text of the first signal a Worker emits for a process that wrote the
\* chunks and exited: what the success or the failure callback is given.
Worker_delivers(chunks) ==
    LET op == ReadAll(NewOp("Worker", <<>>, "none", 0), chunks)
    IN  process_finished(0, op.error_data, op.output_data)[1].text

\* No call.
CallIdle == call_fn = "none" /\ call_input = <<>> /\ call_result = <<>>

CallInit ==
    /\ call_result = <<>>
    /\ \/ call_fn = "extract" /\ call_input \in Lines
       \/ call_fn = "refresh_callback" /\ call_input \in RefreshInputs
       \/ call_fn = "install_callback" /\ call_input \in InstallOutputs
       \/ call_fn = "SuggestedAppsLoader_run" /\ call_input \in FetchOutcomes
       \/ call_fn = "Worker" /\ call_input \in ReadSplits

\* extract_app_name and extract_app_description of one line, as every caller
\* of them calls the two.
call_extract ==
    /\ call_fn = "extract" /\ call_result = <<>>
    /\ call_result' = <<[name |-> extract_app_name(call_input),
                         description |-> extract_app_description(call_input)]>>
    /\ UNCHANGED <<call_fn, call_input, guiVars, bootVars, searchVars>>

\* refresh_installed_apps.callback on an output, with a list shown before
call_refresh_callback ==
    /\ call_fn = "refresh_callback" /\ call_result = <<>>
    /\ call_result' = <<refresh_installed_apps_callback(call_input.previous,
                                                        call_input.output)>>
    /\ UNCHANGED <<call_fn, call_input, guiVars, bootVars, searchVars>>

\* install_selected_appimage.callback on an output: the text of its box
call_install_callback ==
    /\ call_fn = "install_callback" /\ call_result = <<>>
    /\ call_result' = <<CallbackBox(0, "install", call_input).text>>
    /\ UNCHANGED <<call_fn, call_input, guiVars, bootVars, searchVars>>

\* SuggestedAppsLoader.run for one outcome of the fetch: what it emits
call_SuggestedAppsLoader_run ==
    /\ call_fn = "SuggestedAppsLoader_run" /\ call_result = <<>>
    /\ call_result' = <<SuggestedAppsLoader_emissions(call_input)>>
    /\ UNCHANGED <<call_fn, call_input, guiVars, bootVars, searchVars>>

\* A Worker whose process writes the chunks and exits: what it delivers
call_Worker ==
    /\ call_fn = "Worker" /\ call_result = <<>>
    /\ call_result' = <<Worker_delivers(call_input)>>
    /\ UNCHANGED <<call_fn, call_input, guiVars, bootVars, searchVars>>

CallNext ==
    \/ call_extract
    \/ call_refresh_callback
    \/ call_install_callback
    \/ call_SuggestedAppsLoader_run
    \/ call_Worker

vars == <<guiVars, bootVars, callVars, searchVars>>

Init == GuiInit /\ BootDone /\ CallIdle

Next == GuiNext

Spec == Init /\ [][Next]_vars

\* The threads and the UI thread's event loops run what they can run; the
\* backend process, once started, writes its output and exits.  Nothing is
\* assumed of the user.
Fairness ==
    /\ \A t \in 1..MaxOps : WF_vars(t \in DOMAIN ops /\ WorkerRun(t))
    /\ \A t \in 1..MaxOps : WF_vars(t \in DOMAIN ops /\ ReadyRead(t))
    /\ \A t \in 1..MaxOps : WF_vars(t \in DOMAIN ops /\ ProcessExits(t))
    /\ \A t \in 1..MaxOps : WF_vars(t \in DOMAIN ops /\ FileLoaderRun(t))
    /\ \A t \in 1..MaxOps : WF_vars(t \in DOMAIN ops /\ SuggestedLoaderRun(t))
    /\ \A t \in 1..MaxOps : WF_vars(t \in DOMAIN ops /\ ThreadExit(t))
    /\ WF_vars(MainDispatch)

FairSpec == Spec /\ Fairness

BootSpecInit == BootInit /\ GuiAbsent /\ CallIdle

BootSpecNext == BootNext

BootSpec == BootSpecInit /\ [][BootSpecNext]_vars

\* The main window with a user who changes tabs, selects in the list of
\* available applications and searches it.
BrowseNext ==
    \/ \E t \in DOMAIN ops : WorkerRun(t)
    \/ \E t \in DOMAIN ops : ReadyRead(t)
    \/ \E t \in DOMAIN ops : ProcessExits(t)
    \/ \E t \in DOMAIN ops : FileLoaderRun(t)
    \/ \E t \in DOMAIN ops : SuggestedLoaderRun(t)
    \/ \E t \in DOMAIN ops : ThreadExit(t)
    \/ MainDispatch
    \/ CloseBox
    \/ SelectAvailable
    \/ on_tab_changed
    \/ on_search_text_changed
    \/ search_button_clicked

BrowseSpec == Init /\ [][BrowseNext]_vars

CallSpecInit == CallInit /\ GuiAbsent /\ BootDone

CallSpecNext == CallNext

CallSpec == CallSpecInit /\ [][CallSpecNext]_vars

(***************************************************************************)
(* What the backend process of an invocation wrote.                        *)
(***************************************************************************)
RECURSIVE BytesOn(_, _)
\* The bytes of the chunks written on one of the channels, in order.
BytesOn(chunks, channels) ==
    IF chunks = <<>> THEN <<>>
    ELSE (IF Head(chunks).ch \in channels THEN Head(chunks).data ELSE <<>>)
         \o BytesOn(Tail(chunks), channels)

\* The chunks the process of invocation t has written so far.
Written(t) ==
    IF ops[t].script \in DOMAIN Outputs
    THEN SubSeq(Outputs[ops[t].script], 1, ops[t].pos)
    ELSE <<>>

\* The process of invocation t wrote on its error channel.
WroteErr(t) == BytesOn(Written(t), {"stderr"}) # <<>>

\* The invocations of appman whose worker emitted its signals: the process exited.
Exited == {t \in DOMAIN ops : ops[t].kind = "Worker"
                              /\ ops[t].phase \in {"exited", "quitting", "finished", "handled"}}

Sigs(t) == [k \in DOMAIN ops[t].emitted |-> ops[t].emitted[k].sig]

(***************************************************************************)
(* C1.  For every invocation whose process exits, the worker emits exactly *)
(* one of output_ready and error_occurred, once, and then finished, once;  *)
(* before the exit it emits nothing; and the UI thread gets the result     *)
(* before the thread is told to quit.                                      *)
(***************************************************************************)
C1_OneResultThenFinished ==
    /\ \A t \in DOMAIN ops : ops[t].kind = "Worker" =>
         IF t \in Exited
         THEN Sigs(t) \in {<<"output_ready", "finished">>, <<"error_occurred", "finished">>}
         ELSE Sigs(t) = <<>>
    /\ \A i, j \in DOMAIN mainQueue :
         (i < j /\ mainQueue[i].t = mainQueue[j].t /\ mainQueue[i].sig = "quit")
            => mainQueue[j].sig \notin {"output_ready", "error_occurred"}

\* A process exited and its worker emitted output_ready and then finished.
C1_Witness ==
    \E t \in Exited : Sigs(t) = <<"output_ready", "finished">>

(***************************************************************************)
(* C2.  As claimed: the process wrote nothing on its error channel and the *)
(* worker emits output_ready with the stripped text of all it wrote, or it *)
(* wrote on the error channel and the worker emits error_occurred with the *)
(* stripped error text.  The code violates the second half: the channels   *)
(* are merged, so error_data stays empty.                                  *)
(***************************************************************************)
C2_ErrorChannelSelectsCallback ==
    \A t \in Exited : ops[t].emitted # <<>> =>
        LET wrote == Written(t)
            first == ops[t].emitted[1]
        IN  IF BytesOn(wrote, {"stderr"}) = <<>>
            THEN /\ first.sig = "output_ready"
                 /\ first.text = strip_ansi_escape_codes(BytesOn(wrote, {"stdout", "stderr"}))
            ELSE /\ first.sig = "error_occurred"
                 /\ first.text = strip_ansi_escape_codes(BytesOn(wrote, {"stderr"}))

(***************************************************************************)
(* C3.  As claimed: while an invocation started by run_script_async is in  *)
(* flight, the UI is disabled.  The code violates it: on_thread_finished   *)
(* of an earlier thread enables the UI after a later launch disabled it.   *)
(***************************************************************************)
C3_UiDisabledWhileInFlight == InFlight # {} => ~uiEnabled

(***************************************************************************)
(* C4.  As claimed: at most one appman invocation is in flight.  Stated of *)
(* the processes that run, which is the least the claim asks.              *)
(***************************************************************************)
Running == {t \in DOMAIN ops : ops[t].kind = "Worker" /\ ops[t].phase = "running"}

C4_AtMostOneInvocation == Cardinality(Running) <= 1

(***************************************************************************)
(* C5.  As claimed, in the form a finite run refutes: every invocation     *)
(* run_script_async started and on_thread_finished has not yet handled has *)
(* a step left that brings it nearer: a step of its worker or its thread,  *)
(* or an event of it queued for the UI thread.  Where none is left, no     *)
(* scheduling, fair or not, completes it: the dialog stays and the UI      *)
(* stays disabled.  The code violates it when the process cannot start.    *)
(***************************************************************************)
Pending(t) == \E i \in DOMAIN mainQueue : mainQueue[i].t = t

C5_EveryInvocationCompletes ==
    \A t \in DOMAIN ops :
        (ops[t].kind = "Worker" /\ ops[t].phase # "handled")
            => \/ ENABLED (WorkerRun(t) \/ ReadyRead(t) \/ ProcessExits(t) \/ ThreadExit(t))
               \/ Pending(t)

(***************************************************************************)
(* C6.  In every step: when the success callback of an update, update-all, *)
(* remove or install invocation returns, that step launches one            *)
(* invocation with argument -f for it; a callback returns once; and only   *)
(* such a return launches a follow-up.                                     *)
(***************************************************************************)
Mutating(op) == op.kind = "Worker" /\ op.args[1] \in {"-u", "-R", "-i"}

C6_SuccessLaunchesOneRefresh ==
    [][ /\ \A t \in DOMAIN ops :
             /\ ops[t].cb_done => ops'[t].cb_done
             /\ (Mutating(ops[t]) /\ ops[t].result = "success"
                 /\ ~ops[t].cb_done /\ ops'[t].cb_done)
                  => /\ Len(ops') = Len(ops) + 1
                     /\ ops'[Len(ops')].kind = "Worker"
                     /\ ops'[Len(ops')].args = <<"-f">>
                     /\ ops'[Len(ops')].cause = t
        /\ (Len(ops') = Len(ops) + 1 /\ ops'[Len(ops')].cause # 0)
             => LET t == ops'[Len(ops')].cause
                IN  /\ t \in DOMAIN ops
                    /\ Mutating(ops[t]) /\ ops[t].result = "success" /\ ~ops[t].cb_done
      ]_vars

\* An invocation with -f was launched by the success callback of another.
C6_Witness ==
    \E t \in DOMAIN ops : ops[t].args = <<"-f">> /\ ops[t].cause # 0

NothingButTheBox ==
    UNCHANGED <<ops, mainQueue, uiEnabled, progress_dialog, threads, workers,
                installedApps, currentIndex, currentTab, available_apps_loaded,
                all_available_apps, available_apps, availableIndex, suggested_apps>>

C8_RemoveOnlyAfterYes ==
    [][ /\ (Len(modals') = Len(modals) + 1 /\ Top(modals').cont = "question")
             => /\ currentIndex \in DOMAIN installedApps
                /\ installedApps[currentIndex].is_app
                /\ installedApps[currentIndex].name # <<>>
                /\ Top(modals').arg = installedApps[currentIndex].name
                /\ NothingButTheBox
        /\ (Len(ops') = Len(ops) + 1 /\ Mutating(ops'[Len(ops')])
            /\ ops'[Len(ops')].args[1] = "-R")
             => /\ modals # <<>>
                /\ Top(modals).cont = "question"
                /\ ops'[Len(ops')].args = <<"-R", Top(modals).arg>>
                /\ Top(modals).arg # <<>>
                /\ modals' = Append(Pop(modals), Progress(Len(ops')))
        /\ (modals # <<>> /\ Top(modals).cont = "question" /\ modals' = Pop(modals))
             => NothingButTheBox
        /\ (Len(modals') = Len(modals) + 1 /\ Top(modals').w = "box"
            /\ Top(modals').title \in {"No Selection", "Invalid Selection",
                                       "No Application Name"})
             => NothingButTheBox
      ]_vars

\* The user answered Yes and the invocation with -R for the name asked is under way.
C8_Witness ==
    \E t \in DOMAIN ops : /\ ops[t].kind = "Worker"
                          /\ ops[t].args = <<"-R", <<"a">>>>
                          /\ ops[t].phase = "running"

(***************************************************************************)
(* C9.  Under BootSpec: when appman exists as install_appman_if_missing    *)
(* starts, the bootstrap returns success and takes no other step: no       *)
(* dependency check, no installation, no installer, no configuration, no   *)
(* dialog.                                                                 *)
(***************************************************************************)
C9_BootstrapShortCircuit ==
    existed_at_start =>
        /\ pc \in {"start", "returned", "exec"}
        /\ pc # "start" => bootstrap_result = "True"
        /\ boot_log = <<>>
        /\ critical_dialogs = <<>>
        /\ exit_code = -1

\* appman was in place, the bootstrap returned and the main window exists.
C9_Witness == existed_at_start /\ pc = "exec" /\ window_created /\ boot_log = <<>>

(***************************************************************************)
(* C10.  As claimed, under BootSpec: every bootstrap that does not return  *)
(* success was reported in a dialog, ends the process with exit code 1     *)
(* before the main window is constructed, and the main window exists only  *)
(* after a successful bootstrap.  The code violates the first part when    *)
(* pkexec cannot be executed.                                              *)
(***************************************************************************)
C10_FatalOutcomeReported ==
    /\ bootstrap_result \in {"False", "raised"} => critical_dialogs # <<>>
    /\ pc = "exited" => exit_code = 1 /\ ~window_created
                        /\ bootstrap_result \in {"False", "raised"}
    /\ window_created => bootstrap_result = "True" /\ exit_code = -1

(***************************************************************************)
(* C11.  Under BootSpec, in every step: when download_and_run_am_installer *)
(* returns, by whichever of its exit paths, ./AM-INSTALLER does not exist. *)
(***************************************************************************)
C11_InstallerRemovedOnReturn ==
    [][ (pc = "download_and_run_am_installer" /\ pc' # pc) => ~installer_file' ]_vars

\* The installer step failed after the script was written, and removed it.
C11_Witness ==
    /\ pc = "returned" /\ bootstrap_result = "False"
    /\ Len(boot_log) > 2
    /\ boot_log[Len(boot_log)] = "os.remove"
    /\ boot_log[Len(boot_log) - 1] \in InstallerOutcomes
    /\ ~installer_file

(***************************************************************************)
(* C12.  Under BootSpec, in every step: the stages of the bootstrap run in *)
(* the order dependencies, installer, verification, configuration, each at *)
(* most once and only when the one before it succeeded (the dependencies   *)
(* all installed, the installer returned zero, the verification found      *)
(* appman); no stage runs once the bootstrap has returned or raised; and   *)
(* with appman absent at the start the bootstrap returns success only from *)
(* a configuration run that returned zero.                                 *)
(***************************************************************************)
StageNames ==
    {"install_dependencies", "download_and_run_am_installer", "verify",
     "configure_appman_directory"}

IsStage(x) == x \in StageNames

\* The stages in the log, in the order they ran.
Stages(log) == SelectSeq(log, IsStage)

C12_BootstrapIsLinear ==
    [][ LET n == Len(boot_log)
            new == SubSeq(boot_log', n + 1, Len(boot_log'))
        IN  /\ Len(boot_log') >= n /\ SubSeq(boot_log', 1, n) = boot_log
            /\ new # <<>> =>
                 /\ bootstrap_result = "none"
                 /\ ~existed_at_start
                 /\ IsStage(new[1]) /\ Len(Stages(new)) = 1
                 /\ CASE new[1] = "install_dependencies" ->
                           boot_log = <<>> /\ ~appman_exists
                      [] new[1] = "download_and_run_am_installer" ->
                           /\ Stages(boot_log) = <<"install_dependencies">>
                           /\ dependencies \subseteq installed_packages
                      [] new[1] = "verify" ->
                           /\ Stages(boot_log) = <<"install_dependencies",
                                                   "download_and_run_am_installer">>
                           /\ \E i \in DOMAIN boot_log : boot_log[i] = "returned_zero"
                      [] new[1] = "configure_appman_directory" ->
                           /\ Stages(boot_log) = <<"install_dependencies",
                                                   "download_and_run_am_installer",
                                                   "verify">>
                           /\ appman_exists
            /\ (~existed_at_start /\ bootstrap_result = "none"
                /\ bootstrap_result' = "True")
                 => new = <<"configure_appman_directory", "returned_zero">>
      ]_vars

\* appman was absent, and the bootstrap ran its four stages and returned success.
C12_Witness ==
    /\ ~existed_at_start /\ bootstrap_result = "True"
    /\ Stages(boot_log) = <<"install_dependencies", "download_and_run_am_installer",
                            "verify", "configure_appman_directory">>

(***************************************************************************)
(* C13.  As claimed, under CallSpec: for a line that contains " : " the    *)
(* name is the text left of the first " : ", trimmed and without one       *)
(* leading marker glyph (trimmed again or not), and the description is the *)
(* trimmed text right of it.  The code violates it for the name: it splits *)
(* a line that holds "|" at the "|", and it removes every leading glyph.   *)
(***************************************************************************)
WithoutOneMarker(s) == IF s # <<>> /\ Head(s) = MARKER THEN Tail(s) ELSE s

C13_SplitOnFirstColon ==
    (call_fn = "extract" /\ call_result # <<>> /\ Contains(call_input, COLON_SEP)) =>
        LET left == Strip(SplitHead(call_input, COLON_SEP))
            right == Strip(SplitTail(call_input, COLON_SEP))
        IN  /\ call_result[1].name \in {WithoutOneMarker(left),
                                         Strip(WithoutOneMarker(left))}
            /\ call_result[1].description = right

(***************************************************************************)
(* C14.  Under CallSpec: the list the callback of refresh_installed_apps   *)
(* publishes for an output O has one entry for each line of O that begins  *)
(* with the marker glyph once the white space around the line is trimmed,  *)
(* in the order of those lines, each with its installed flag true and the  *)
(* name and description parsed from that line; nothing else is in it,      *)
(* whatever was shown before.  (As claimed, with "begins with the marker   *)
(* glyph" read of the trimmed line, as the code tests it.)                 *)
(***************************************************************************)
BeginsWithMarkerTrimmed(l) == StartsAt(Strip(l), 1, <<MARKER>>)

BeginsWithMarker(l) == StartsAt(l, 1, <<MARKER>>)

\* The list has one entry for each of the lines, in their order.
OneEntryPerLine(apps, lines) ==
    /\ Len(apps) = Len(lines)
    /\ \A i \in DOMAIN apps :
         /\ apps[i].is_app = TRUE
         /\ apps[i].name = extract_app_name(lines[i])
         /\ apps[i].description = extract_app_description(lines[i])

C14_OneEntryPerMarkedLine ==
    (call_fn = "refresh_callback" /\ call_result # <<>>) =>
        OneEntryPerLine(call_result[1],
                        SelectSeq(SplitAll(call_input.output, <<NL>>),
                                  BeginsWithMarkerTrimmed))

\* C14 as stated: the lines that count are those whose first character is the
\* marker glyph.
C14_AsStated ==
    (call_fn = "refresh_callback" /\ call_result # <<>>) =>
        OneEntryPerLine(call_result[1],
                        SelectSeq(SplitAll(call_input.output, <<NL>>),
                                  BeginsWithMarker))

\* A list was shown, and the callback published two entries for an output of
\* three lines.
C14_Witness ==
    /\ call_fn = "refresh_callback" /\ call_result # <<>>
    /\ call_input.previous # <<>>
    /\ Len(SplitAll(call_input.output, <<NL>>)) = 3
    /\ Len(call_result[1]) = 2

(***************************************************************************)
(* C15.  As claimed, under BrowseSpec: a step of the search box or the     *)
(* search button (one that moves neither the tab nor the event queue nor   *)
(* a thread) with fewer than 2 characters in the box leaves the displayed  *)
(* list of available applications as it is.  The code violates it for the  *)
(* button: perform_search filters for any text that is not blank.          *)
(***************************************************************************)
C15_ShortQueryLeavesList ==
    [][ (/\ Len(search_text') < 2
         /\ currentTab' = currentTab /\ mainQueue' = mainQueue /\ ops' = ops)
            => available_apps' = available_apps ]_vars

(***************************************************************************)
(* C16.  Under BrowseSpec, in every step: all_available_apps changes only  *)
(* in the step that delivers apps_loaded of a file load, so no search, tab *)
(* change or redisplay changes it; and the list displayed is a sub-list of *)
(* it, in its order.                                                       *)
(***************************************************************************)
RECURSIVE IsSubList(_, _)
\* a is b with some of its elements left out.
IsSubList(a, b) ==
    IF a = <<>> THEN TRUE
    ELSE IF b = <<>> THEN FALSE
    ELSE IF Head(a) = Head(b) THEN IsSubList(Tail(a), Tail(b))
    ELSE IsSubList(a, Tail(b))

C16_SearchKeepsBaseList ==
    [][ /\ all_available_apps' # all_available_apps
             => /\ mainQueue # <<>>
                /\ Head(mainQueue).sig = "apps_loaded"
                /\ mainQueue' = Tail(mainQueue)
        /\ IsSubList(available_apps', all_available_apps')
      ]_vars

\* A search has filtered the loaded list: part of it is displayed.
C16_Witness ==
    /\ available_apps_loaded
    /\ Len(search_text) >= 2
    /\ available_apps # <<>>
    /\ Len(available_apps) < Len(all_available_apps)

(***************************************************************************)
(* C17.  As claimed, under BrowseSpec: the file of available applications  *)
(* is read at most once: a step starts a file load only when the cache is  *)
(* not populated and no file load was started before.  The code violates   *)
(* it while a first load is under way, by the fault of C3.                 *)
(***************************************************************************)
C17_FileReadAtMostOnce ==
    [][ (Len(ops') = Len(ops) + 1 /\ ops'[Len(ops')].kind = "FileLoaderWorker")
            => /\ ~available_apps_loaded
               /\ \A t \in DOMAIN ops : ops[t].kind # "FileLoaderWorker" ]_vars

(***************************************************************************)
(* C18.  Under CallSpec: the text the install callback displays for an     *)
(* output that contains the phrase is the phrase, a line break and the     *)
(* trimmed text that follows the last occurrence of the phrase; for an     *)
(* output without the phrase it is the output.  (As claimed, but that the  *)
(* phrase itself is displayed before the text that follows it.)            *)
(***************************************************************************)
\* The text of s after the first and after the last occurrence of pat.
AfterFirst(s, pat) == SubSeq(s, Find(s, pat) + Len(pat), Len(s))

AfterLast(s, pat) ==
    LET hits == {i \in 1..Len(s) : StartsAt(s, i, pat)}
        last == CHOOSE i \in hits : \A j \in hits : j <= i
    IN  SubSeq(s, last + Len(pat), Len(s))

C19_FallbackOnEveryFailure ==
    (call_fn = "SuggestedAppsLoader_run" /\ call_result # <<>>) =>
        /\ Len(call_result[1]) = 1
        /\ call_input.kind # "json" => call_result[1][1] = DefaultSuggestedApps

(***************************************************************************)
(* C20.  As claimed: once on_thread_finished has run for the thread of an  *)
(* operation, self.threads does not hold its thread and self.workers does  *)
(* not hold its worker; so with every operation handled both are empty.    *)
(* The code violates it for the workers: nothing removes a worker.         *)
(***************************************************************************)
C20_PairDiscardedOnCompletion ==
    /\ \A t \in DOMAIN ops :
         ops[t].phase = "handled" => (t \notin threads /\ t \notin workers)
    /\ (\A t \in DOMAIN ops : ops[t].phase = "handled")
         => (threads = {} /\ workers = {})

(***************************************************************************)
(* C21.  As claimed, under CallSpec: for every output of a process and     *)
(* every way of splitting it into read chunks, the text the Worker         *)
(* delivers to the callback is the output stripped once as a whole, and no *)
(* CSI sequence starts anywhere in it.  The code violates it: a sequence   *)
(* that a read splits is stripped in neither chunk.                        *)
(***************************************************************************)
NoCsi(text) == \A i \in 1..Len(text) : CsiMatchEnd(text, i) = 0

C21_ChunkedStripIsWholeStrip ==
    (call_fn = "Worker" /\ call_result # <<>>) =>
        /\ call_result[1] =
             strip_ansi_escape_codes(BytesOn(call_input, {"stdout", "stderr"}))
        /\ NoCsi(call_result[1])

(***************************************************************************)
(* C22.  As claimed: no entry built from the available-apps file, in the   *)
(* list the loader delivered or in the list shown, has a true flag; the    *)
(* flag is true for entries of the installed list only.  The code violates *)
(* it: FileLoaderWorker.run sets the flag of every entry it builds.        *)
(***************************************************************************)
Flagged(apps) == {i \in DOMAIN apps : apps[i].is_app}

C22_FileEntriesNotFlagged ==
    Flagged(all_available_apps) = {} /\ Flagged(available_apps) = {}

(***************************************************************************)
(* C23.  As claimed: whenever on_thread_finished has run for the thread of *)
(* every operation started and no queued call is left, the UI is enabled   *)
(* and no progress dialog is open, whichever operation created it.         *)
(***************************************************************************)
Quiescent ==
    /\ \A t \in DOMAIN ops : ops[t].phase = "handled"
    /\ mainQueue = <<>>

C23_QuiescentUiIsFree == Quiescent => (uiEnabled /\ OpenDialogs = {})

=============================================================================
